---- MODULE Spec2Model ----
(***************************************************************************)
(* Fiscalization of account.move documents (models/account_move.py).       *)
(*                                                                         *)
(* State: the account.move records with the fields the connector adds,    *)
(* and the zimra.invoice audit-log table.  Every public entry point of    *)
(* AccountMove is one action; _send_to_zimra is the operator SendToZimra   *)
(* that every action which submits applies.  The transport                 *)
(* (config.send_fiscal_data), the active zimra.config of the company and   *)
(* the faults of the host are inputs of the actions.                       *)
(*                                                                         *)
(* Python values: None is the string "None" (what str(None) prints), and   *)
(* a field holding False / '' / None reads back as "" (the ORM stores      *)
(* every falsy Char, Text, Datetime or Many2one as NULL).                  *)
(***************************************************************************)
EXTENDS Integers, Sequences, FiniteSets, TLC

VARIABLES moves, zimra_invoice, last, tax_mapping

vars == <<moves, zimra_invoice, last, tax_mapping>>

\* ---------------------------------------------------------------- bounds
MaxDocs == 2
MaxRows == 3
MaxSweeps == 4
MaxMappings == 3

\* ------------------------------------------------------- program constants
MaxRetry == 3

\* ---------------------------------------------------------- Python values
None == "None"

Truthy(v) == v \notin {None, ""}

\* What a Char/Text field reads back after a value was assigned to it.
Stored(v) == IF Truthy(v) THEN v ELSE ""

\* fields.Datetime.now(): the model keeps that a stamp was taken.
Now == "now"

\* -------------------------------------------------------- the six statuses
ZimraStatus == {"pending", "sent", "fiscalized", "failed", "cancelled", "exempted"}

MoveTypes == {"out_invoice", "out_refund", "in_invoice", "entry"}

\* Every document type and posting state of the host's account.move.
AllMoveTypes == MoveTypes \cup {"in_refund", "out_receipt", "in_receipt"}

States == {"draft", "posted", "cancel"}

\* account.move.is_invoice(include_receipts): sale and purchase documents,
\* with the receipts when asked for.
is_invoice(m, include_receipts) ==
    \/ m.move_type \in {"out_invoice", "out_refund", "in_invoice", "in_refund"}
    \/ include_receipts /\ m.move_type \in {"out_receipt", "in_receipt"}

\* ------------------------------------------------ the transport's answers
\* One element of the authority's JSON array; an absent key is None.
Elem(err, req, num, day, qr, pdf, url) ==
    [Error |-> err, RequestId |-> req, InvoiceNumber |-> num, FiscalDay |-> day,
     QrData |-> qr, FiscalInvoicePdf |-> pdf, verification_url |-> url,
     fiscal_number |-> None]

OkElem       == Elem("", None, "INV-001", "12", "QR", "PDF", "URL")
OkNoErrElem  == Elem(None, None, "INV-002", "12", None, None, None)
ErrElem      == Elem("Invalid TIN", "REQ-1", None, None, None, None, None)
ErrNoReqElem == Elem("Invalid TIN", None, None, None, None, None, None)

\* kind: "list" a JSON array, "dict" a JSON object, "none" no body at all.
Responses ==
    { [kind |-> "list", items |-> <<OkElem>>],
      [kind |-> "list", items |-> <<OkNoErrElem>>],
      [kind |-> "list", items |-> <<ErrElem>>],
      [kind |-> "list", items |-> <<ErrNoReqElem>>],
      [kind |-> "list", items |-> <<>>],
      [kind |-> "none", items |-> <<>>],
      [kind |-> "dict", items |-> <<ErrNoReqElem>>] }

\* What config.send_fiscal_data does: it returns a body or it raises.
TransportResults ==
    [raises : {FALSE}, msg : {""}, data : Responses]
    \cup { [raises |-> TRUE, msg |-> "timeout", data |-> [kind |-> "none", items |-> <<>>]] }

NoTransport == [raises |-> FALSE, msg |-> "", data |-> [kind |-> "none", items |-> <<>>]]

\* What one run of the try block meets: an exception while the payload is
\* built, an exception while the audit-log row is created, or the transport's
\* answer.
Outcomes ==
    { [fault |-> "build", tr |-> NoTransport], [fault |-> "create", tr |-> NoTransport] }
    \cup { [fault |-> "none", tr |-> t] : t \in TransportResults }

\* The active zimra.config of the move's company: active = FALSE is "no
\* active configuration".
Configs ==
    { [active |-> FALSE, auto_fiscalize |-> FALSE] }
    \cup [active : {TRUE}, auto_fiscalize : BOOLEAN]

\* bool(response_data)
RespTruthy(r) == r.kind # "none" /\ Len(r.items) > 0

\* dict.get(key) and dict.get(key, default) on an element
Get(e, key) == e[key]

GetDefault(e, key, default) == IF e[key] = None THEN default ELSE e[key]

\* response_data[0] if response_data else {}
EmptyDict == Elem(None, None, None, None, None, None, None)

\* json.dumps of one JSON object: the keys that are present, in order.
DumpsKeys == <<"FiscalDay", "InvoiceNumber", "QrData", "FiscalInvoicePdf",
               "verification_url", "Error", "RequestId">>

RECURSIVE DumpsFrom(_, _, _)
DumpsFrom(e, i, first) ==
    IF i > Len(DumpsKeys) THEN ""
    ELSE IF e[DumpsKeys[i]] = None THEN DumpsFrom(e, i + 1, first)
    ELSE (IF first THEN "" ELSE ", ")
         \o "\"" \o DumpsKeys[i] \o "\": \"" \o e[DumpsKeys[i]] \o "\""
         \o DumpsFrom(e, i + 1, FALSE)

DumpsElem(e) == "{" \o DumpsFrom(e, 1, TRUE) \o "}"

\* json.dumps(response_data)
Dumps(r) ==
    IF r.kind = "dict" THEN DumpsElem(r.items[1])
    ELSE IF r.kind = "none" THEN "null"
    ELSE IF Len(r.items) = 0 THEN "[]"
    ELSE "[" \o DumpsElem(r.items[1]) \o "]"

\* Mutant: the two parts of the fiscal number in the other order.
FiscalNumber_Swapped(invoice_number, fiscalday) == fiscalday \o "/" \o invoice_number

\* f"{invoice_number}/{fiscalday}"
FiscalNumber(invoice_number, fiscalday) == invoice_number \o "/" \o fiscalday

\* ------------------------------------------------------ account.move
\* A record as super().create leaves it: the field defaults of the class.
NewMove(move_type, state) ==
    [move_type |-> move_type, state |-> state,
     zimra_status |-> "pending",
     zimra_fiscal_number |-> "", zimra_response |-> "", zimra_error |-> "",
     zimra_sent_date |-> "", zimra_fiscalized_date |-> "",
     zimra_retry_count |-> 0,
     zimra_qr_code |-> "", zimra_verification_url |-> "",
     fiscal_pdf_attachment_id |-> 0, fiscalized_pdf |-> ""]

Ids == 1..MaxDocs

Created == 1..Len(moves)

\* Mutant: the predicate without the check of the posting state.
_should_fiscalize_AnyState(m) ==
    IF ~is_invoice(m, TRUE) THEN FALSE
    ELSE IF m.zimra_status \in {"fiscalized", "exempted"} THEN FALSE
    ELSE IF m.move_type \notin {"out_invoice", "out_refund"} THEN FALSE
    ELSE TRUE

_should_fiscalize(m) ==
    IF ~is_invoice(m, TRUE) THEN FALSE
    ELSE IF m.zimra_status \in {"fiscalized", "exempted"} THEN FALSE
    ELSE IF m.state # "posted" THEN FALSE
    ELSE IF m.move_type \notin {"out_invoice", "out_refund"} THEN FALSE
    ELSE TRUE

_is_fiscalization_successful(r) ==
    IF ~RespTruthy(r) \/ r.kind # "list" THEN FALSE
    ELSE ~Truthy(Get(r.items[1], "Error"))

\* Mutant: the credit-note schema never marks a retry.
_prepare_zimra_invoice_data_RefundNeverRetry(m) ==
    [schema |-> IF m.move_type = "out_refund" THEN "CreditNote" ELSE "Invoice",
     IsRetry |-> m.move_type # "out_refund" /\ m.zimra_retry_count > 0]

\* The part of the payload the state machine reads or that identifies the
\* attempt: which schema was built and the IsRetry flag.
_prepare_zimra_invoice_data(m) ==
    [schema |-> IF m.move_type = "out_refund" THEN "CreditNote" ELSE "Invoice",
     IsRetry |-> m.zimra_retry_count > 0]

\* The endpoint chosen for a payload (document names carry no refund marker).
Endpoint(invoice_data) ==
    IF invoice_data.schema = "CreditNote" THEN "/creditnote" ELSE "/invoice"

\* ------------------------------------------------- the payload's numbers
\* A number is the exact fraction num / den with den > 0; the amounts of a
\* document are hundredths.  A formatted number is the sequence of its
\* characters.
Frac(num, den) == [num |-> num, den |-> den]

Zero == Frac(0, 1)

\* abs(x)
Abs(x) == Frac(IF x.num < 0 THEN -x.num ELSE x.num, x.den)

\* x * y
Times(x, y) == Frac(x.num * y.num, x.den * y.den)

\* x / y for y # 0
Over(x, y) ==
    IF y.num < 0 THEN Frac(-(x.num * y.den), x.den * (-y.num))
    ELSE Frac(x.num * y.den, x.den * y.num)

DigitChars == <<"0", "1", "2", "3", "4", "5", "6", "7", "8", "9">>

\* The decimal digits of n >= 0.
RECURSIVE Digits(_)
Digits(n) ==
    IF n < 10 THEN <<DigitChars[n + 1]>>
    ELSE Append(Digits(n \div 10), DigitChars[(n % 10) + 1])

\* The last width decimal digits of n >= 0, with leading zeros.
RECURSIVE PadDigits(_, _)
PadDigits(n, width) ==
    IF width = 0 THEN <<>>
    ELSE Append(PadDigits(n \div 10, width - 1), DigitChars[(n % 10) + 1])

Pow10(places) == IF places = 3 THEN 1000 ELSE 100

\* f"{x:.2f}" and f"{x:.3f}": the magnitude rounded to the nearest multiple
\* of 10^-places, ties to even, behind a minus sign when x is negative (also
\* when it rounds to zero: f"{-0.001:.2f}" is "-0.00").
Format(x, places) ==
    LET scaled  == Abs(x).num * Pow10(places)
        q       == scaled \div x.den
        r       == scaled % x.den
        rounded == IF 2 * r > x.den \/ (2 * r = x.den /\ q % 2 = 1) THEN q + 1 ELSE q
    IN  (IF x.num < 0 THEN <<"-">> ELSE <<>>)
        \o Digits(rounded \div Pow10(places))
        \o <<".">>
        \o PadDigits(rounded % Pow10(places), places)

\* One entry of the list __get_line_items builds for a product line.
LineItem(m, line) ==
    LET discount_amount0 ==
            IF line.discount.num # 0
            THEN Times(Times(Times(line.price_unit, line.quantity), line.discount),
                       Frac(1, 100))
            ELSE Zero
        refund == m.move_type = "out_refund"
        unit_amount     == IF refund THEN Abs(line.price_total) ELSE line.price_total
        line_amount     == IF refund THEN Abs(line.price_total) ELSE line.price_total
        quantity        == IF refund THEN Abs(line.quantity) ELSE line.quantity
        discount_amount == IF refund THEN Abs(discount_amount0) ELSE discount_amount0
    IN  [UnitAmount     |-> IF quantity.num # 0
                            THEN Format(Abs(Over(unit_amount, quantity)), 3)
                            ELSE <<"0", ".", "0", "0", "0">>,
         LineAmount     |-> Format(Abs(line_amount), 2),
         DiscountAmount |-> Format(Abs(discount_amount), 2),
         Quantity       |-> Format(Abs(quantity), 3)]

\* __get_line_items: sections and notes are skipped.
RECURSIVE __get_line_items(_, _)
__get_line_items(m, lines) ==
    IF lines = <<>> THEN <<>>
    ELSE IF Head(lines).display_type \in {"line_section", "line_note"}
    THEN __get_line_items(m, Tail(lines))
    ELSE <<LineItem(m, Head(lines))>> \o __get_line_items(m, Tail(lines))

\* Mutant: the credit-note schema formats the totals as they are.
PayloadAmounts_Signed(m) ==
    [LineItems |-> __get_line_items(m, m.invoice_line_ids),
     SubTotal  |-> Format(m.amount_untaxed, 2),
     TotalTax  |-> Format(m.amount_tax, 2),
     Total     |-> Format(m.amount_total, 2)]

\* The numeric part of the payload _prepare_zimra_invoice_data builds.
PayloadAmounts(m) ==
    IF m.move_type = "out_refund"
    THEN [LineItems |-> __get_line_items(m, m.invoice_line_ids),
          SubTotal  |-> Format(Abs(m.amount_untaxed), 2),
          TotalTax  |-> Format(Abs(m.amount_tax), 2),
          Total     |-> Format(Abs(m.amount_total), 2)]
    ELSE [LineItems |-> __get_line_items(m, m.invoice_line_ids),
          SubTotal  |-> Format(m.amount_untaxed, 2),
          TotalTax  |-> Format(m.amount_tax, 2),
          Total     |-> Format(m.amount_total, 2)]

NoConfigError == "No active FiscalHarmony configuration found"

BuildError == "payload error"

CreateError == "create error"

\* str(KeyError(0)): what response_data[0] raises on a JSON object.
KeyErrorMsg == "0"

\* ------------------------------------------------------ zimra.invoice
\* A row as _send_to_zimra handles it keeps the columns that say how the
\* attempt ended: the document, the status and the error message.  The other
\* columns (request_data, sent_date, response_data, zimra_fiscal_number,
\* fiscalized_date) are copies of what the document holds at that moment.
NewRow(id) ==
    [account_move_id |-> id, status |-> "pending", error_message |-> ""]

\* The state of the document and of this attempt's row when the transport is
\* invoked; called = FALSE when it was not.
NoCall == [called |-> FALSE, zimra_status |-> "", zimra_retry_count |-> 0,
           zimra_sent_date |-> "", row_status |-> "", endpoint |-> "",
           IsRetry |-> FALSE]

AtCall(m, row, invoice_data) ==
    [called |-> TRUE, zimra_status |-> m.zimra_status,
     zimra_retry_count |-> m.zimra_retry_count,
     zimra_sent_date |-> m.zimra_sent_date, row_status |-> row.status,
     endpoint |-> Endpoint(invoice_data), IsRetry |-> invoice_data.IsRetry]

\* What one invocation of _send_to_zimra leaves: the document, the row it
\* created (if any), what it returned, and the transport call it made.  Every
\* path through the method assigns zimra_status exactly once.
Sent(m, rows, result, call) ==
    [move |-> m, rows |-> rows, result |-> result, raised |-> FALSE, call |-> call]

\* Mutant: the except clause records the message but leaves zimra_status.
OnException_KeepsStatus(m, rows, error_msg, call) ==
    Sent([m EXCEPT !.zimra_error = Stored(error_msg)],
         IF rows = <<>> THEN <<>>
         ELSE <<[rows[1] EXCEPT !.status = "failed", !.error_message = error_msg]>>,
         FALSE, call)

\* Mutant: the except clause loses the row of the attempt.
OnException_DropsRow(m, rows, error_msg, call) ==
    Sent([m EXCEPT !.zimra_status = "failed", !.zimra_error = Stored(error_msg)],
         <<>>, FALSE, call)

\* Mutant: the except clause marks the row failed without the message.
OnException_RowWithoutMessage(m, rows, error_msg, call) ==
    Sent([m EXCEPT !.zimra_status = "failed", !.zimra_error = Stored(error_msg)],
         IF rows = <<>> THEN <<>>
         ELSE <<[rows[1] EXCEPT !.status = "failed"]>>,
         FALSE, call)

\* The except clause: m and rows are the document and the row as the try block
\* left them when it raised.
OnException(m, rows, error_msg, call) ==
    Sent([m EXCEPT !.zimra_status = "failed", !.zimra_error = Stored(error_msg)],
         IF rows = <<>> THEN <<>>
         ELSE <<[rows[1] EXCEPT !.status = "failed", !.error_message = error_msg]>>,
         FALSE, call)

\* The branch taken when _is_fiscalization_successful holds.
OnSuccess(m, row, r, call) ==
    LET response == IF RespTruthy(r) THEN r.items[1] ELSE EmptyDict
        number   == FiscalNumber(Get(response, "InvoiceNumber"), Get(response, "FiscalDay"))
        m1 == [m EXCEPT !.zimra_status = "fiscalized",
                        !.zimra_fiscal_number = Stored(number),
                        !.zimra_fiscalized_date = Now,
                        !.zimra_qr_code = Stored(Get(response, "QrData")),
                        !.zimra_verification_url = Stored(Get(response, "verification_url")),
                        !.fiscalized_pdf = Stored(Get(response, "FiscalInvoicePdf")),
                        !.zimra_error = ""]
    IN  Sent(m1,
             <<[row EXCEPT !.status = "fiscalized"]>>,
             TRUE, call)

\* Mutant: the else branch does not record the authority's error.
OnFailure_NoError(m, row, r, call) ==
    LET response == IF RespTruthy(r) /\ r.kind = "list" THEN r.items[1] ELSE EmptyDict
        m1 == [m EXCEPT !.zimra_status = "failed",
                        !.zimra_fiscal_number =
                            Stored(GetDefault(response, "fiscal_number", Get(response, "RequestId")))]
    IN  Sent(m1, <<[row EXCEPT !.status = "failed"]>>, FALSE, call)

\* The else branch; response_data[0] raises on a JSON object.
OnFailure(m, row, r, call) ==
    IF RespTruthy(r) /\ r.kind = "dict"
    THEN OnException(m, <<row>>, KeyErrorMsg, call)
    ELSE
    LET response == IF RespTruthy(r) THEN r.items[1] ELSE EmptyDict
        m1 == [m EXCEPT !.zimra_status = "failed",
                        !.zimra_fiscal_number =
                            Stored(GetDefault(response, "fiscal_number", Get(response, "RequestId"))),
                        !.zimra_error = Stored(Get(response, "Error"))]
    IN  Sent(m1,
             <<[row EXCEPT !.status = "failed", !.error_message = m1.zimra_error]>>,
             FALSE, call)

\* The try block from the transport call on.
AfterSend(m, row, invoice_data, tr) ==
    LET call == AtCall(m, row, invoice_data) IN
    IF tr.raises THEN OnException(m, <<row>>, tr.msg, call)
    ELSE
    LET m1   == [m EXCEPT !.zimra_response = IF RespTruthy(tr.data) THEN Dumps(tr.data) ELSE ""]
    IN  IF _is_fiscalization_successful(tr.data)
        THEN OnSuccess(m1, row, tr.data, call)
        ELSE OnFailure(m1, row, tr.data, call)

\* Mutant: the lookup of the configuration is not checked.
_send_to_zimra_NoConfigCheck(m, id, config, o) ==
    IF ~_should_fiscalize(m)
    THEN Sent([m EXCEPT !.zimra_status = "exempted"], <<>>, TRUE, NoCall)
    ELSE IF o.fault = "build" THEN OnException(m, <<>>, BuildError, NoCall)
    ELSE IF o.fault = "create" THEN OnException(m, <<>>, CreateError, NoCall)
    ELSE
    LET invoice_data == _prepare_zimra_invoice_data(m)
        m1   == [m EXCEPT !.zimra_sent_date = Now,
                          !.zimra_retry_count = @ + 1]
        row1 == [NewRow(id) EXCEPT !.status = "sent"]
    IN  AfterSend(m1, row1, invoice_data, o.tr)

\* Mutant: the eligibility of the document is not checked.
_send_to_zimra_NoEligibilityCheck(m, id, config, o) ==
    IF ~config.active
    THEN Sent([m EXCEPT !.zimra_status = "failed", !.zimra_error = NoConfigError],
              <<>>, FALSE, NoCall)
    ELSE IF o.fault = "build" THEN OnException(m, <<>>, BuildError, NoCall)
    ELSE IF o.fault = "create" THEN OnException(m, <<>>, CreateError, NoCall)
    ELSE
    LET invoice_data == _prepare_zimra_invoice_data(m)
        m1   == [m EXCEPT !.zimra_sent_date = Now,
                          !.zimra_retry_count = @ + 1]
        row1 == [NewRow(id) EXCEPT !.status = "sent"]
    IN  AfterSend(m1, row1, invoice_data, o.tr)

\* _send_to_zimra on document id, whose record is m.
_send_to_zimra(m, id, config, o) ==
    IF ~config.active
    THEN Sent([m EXCEPT !.zimra_status = "failed", !.zimra_error = NoConfigError],
              <<>>, FALSE, NoCall)
    ELSE IF ~_should_fiscalize(m)
    THEN Sent([m EXCEPT !.zimra_status = "exempted"], <<>>, TRUE, NoCall)
    ELSE IF o.fault = "build" THEN OnException(m, <<>>, BuildError, NoCall)
    ELSE IF o.fault = "create" THEN OnException(m, <<>>, CreateError, NoCall)
    ELSE
    LET invoice_data == _prepare_zimra_invoice_data(m)
        row0 == NewRow(id)
        m1   == [m EXCEPT !.zimra_sent_date = Now,
                          !.zimra_retry_count = @ + 1]
        row1 == [row0 EXCEPT !.status = "sent"]
    IN  AfterSend(m1, row1, invoice_data, o.tr)

\* ------------------------------------------- what the last operation did
\* last records the last operation: its name, the document it was called on
\* (0 for the retry job), the title of the notification it returned, the
\* documents as they were before it (pre), and per document d a summary
\* sub[d] of the invocations of _send_to_zimra on d during the operation: n
\* invocations, calls transport calls, rows audit-log rows created; of the
\* latest invocation its result, its inputs, the document's status and retry
\* count right before it, the transport call and the audit-log row it wrote
\* (row, empty or one row); trail, the values
\* assigned to the document's zimra_status during the operation, in order;
\* config, the configuration of the company when action_post ran on d; and
\* swept, how many sweeps of the retry job in a row, this operation included,
\* have submitted d (0 after any other operation).
NoOutcome == [fault |-> "none", tr |-> NoTransport]

NoSub ==
    [n |-> 0, calls |-> 0, rows |-> 0, result |-> FALSE, raised |-> FALSE,
     config_active |-> FALSE, o |-> NoOutcome,
     status_before |-> "", retry_before |-> 0, call |-> NoCall,
     row |-> <<>>, trail |-> <<>>,
     config |-> [active |-> FALSE, auto_fiscalize |-> FALSE],
     swept |-> 0]

Sub0 == [d \in Ids |-> NoSub]

\* The documents, the audit log and the summary while an operation runs.
World(ms) == [moves |-> ms, rows |-> zimra_invoice, sub |-> Sub0]

\* move._send_to_zimra() inside an operation.
Submit(w, id, config, o) ==
    LET r == _send_to_zimra(w.moves[id], id, config, o) IN
    [moves |-> [w.moves EXCEPT ![id] = r.move],
     rows  |-> w.rows \o r.rows,
     sub   |-> [w.sub EXCEPT ![id] =
                  [@ EXCEPT !.n = @ + 1,
                            !.calls = @ + (IF r.call.called THEN 1 ELSE 0),
                            !.rows = @ + Len(r.rows),
                            !.result = r.result,
                            !.raised = r.raised,
                            !.config_active = config.active,
                            !.o = o,
                            !.status_before = w.moves[id].zimra_status,
                            !.retry_before = w.moves[id].zimra_retry_count,
                            !.call = r.call,
                            !.row = r.rows,
                            !.trail = Append(@, r.move.zimra_status)]]]

\* move.zimra_status = status inside an operation.
SetStatus(w, id, status) ==
    [w EXCEPT !.moves[id].zimra_status = status,
              !.sub[id].trail = Append(@, status)]

\* The audit log is bounded: MaxRows rows, and one more for every document
\* past the first.
RowsBound(ms) == MaxRows + Len(ms) - 1

\* What the table keeps of a row once the operation that wrote it is over:
\* no code reads a row back or writes to the row of an earlier attempt, and
\* last.sub[d].row holds the whole row of the latest attempt on d.
Filed(rows) ==
    [i \in 1..Len(rows) |->
        [account_move_id |-> rows[i].account_move_id, status |-> rows[i].status]]

\* The operation ends: its effects become the state.
Done(w, op, id, title) ==
    /\ Len(w.rows) <= RowsBound(w.moves)
    /\ moves' = w.moves
    /\ zimra_invoice' = Filed(w.rows)
    /\ last' = [op |-> op, id |-> id, title |-> title, sub |-> w.sub, pre |-> moves]
    /\ UNCHANGED tax_mapping

\* search([('company_id', '=', ...), ('active', '=', True), ('auto_fiscalize', '=', False)])
AutoConfig(config) == config.active /\ config.auto_fiscalize = FALSE

\* -------------------------------------------------------- the environment
\* What the operations draw their inputs from: how many documents are
\* created, of which types, and what a run of the try block can meet.
\* Full is one document against every outcome; Batch is MaxDocs customer
\* invoices against a transport that accepts, rejects or times out.
Full == [docs |-> 1, types |-> MoveTypes, outcomes |-> Outcomes]

Batch ==
    [docs |-> MaxDocs, types |-> {"out_invoice"},
     outcomes |-> { o \in Outcomes :
                      /\ o.fault = "none"
                      /\ \/ o.tr.raises
                         \/ o.tr.data \in { [kind |-> "list", items |-> <<OkElem>>],
                                            [kind |-> "list", items |-> <<ErrElem>>] } }]

\* The outcomes an invocation on m can meet: the try block is entered only
\* past the configuration and eligibility checks.
Meets(E, m, config) ==
    IF config.active /\ _should_fiscalize(m) THEN E.outcomes ELSE {NoOutcome}

\* ------------------------------------------------------------- operations
Init ==
    /\ moves = <<>>
    /\ zimra_invoice = <<>>
    /\ last = [op |-> "init", id |-> 0, title |-> "", sub |-> Sub0, pre |-> <<>>]
    /\ tax_mapping = <<>>

\* create(vals): vals carries the document type and its state.
create(E) ==
    /\ Len(moves) < E.docs
    /\ \E move_type \in E.types, state \in {"draft", "posted"}, config \in Configs :
         LET id == Len(moves) + 1
             m  == NewMove(move_type, state)
             w  == [moves |-> Append(moves, m), rows |-> zimra_invoice,
                    sub |-> Sub0]
         IN  IF is_invoice(m, FALSE) /\ m.move_type \in {"out_invoice", "out_refund"}
             THEN LET w1 == SetStatus(w, id, "pending") IN
                  IF m.state = "posted" /\ AutoConfig(config)
                  THEN \E o \in Meets(E, w1.moves[id], config) :
                         Done(Submit(w1, id, config, o), "create", id, "")
                  ELSE Done(w1, "create", id, "")
             ELSE Done(SetStatus(w, id, "exempted"), "create", id, "")

\* Mutant: the blocks of write() do not test for pending.
WriteSubmits_AnyStatus(m, config) ==
    /\ _should_fiscalize(m)
    /\ AutoConfig(config)

\* The condition of the two blocks of write(): the document is eligible and
\* still pending, and the company has a configuration to auto-fiscalize.
WriteSubmits(m, config) ==
    /\ _should_fiscalize(m)
    /\ m.zimra_status = "pending"
    /\ AutoConfig(config)

WriteBlock(w, id, config, o) ==
    IF WriteSubmits(w.moves[id], config) THEN Submit(w, id, config, o) ELSE w

\* write(vals) past super().write(vals): the block for state = 'posted', then
\* the block for payment_state = 'paid'.
write(w, id, posted, paid, config, o1, o2) ==
    LET w1 == IF posted THEN WriteBlock(w, id, config, o1) ELSE w
    IN  IF paid THEN WriteBlock(w1, id, config, o2) ELSE w1

\* The condition of the loop body of action_post.
PostSubmits(m, config) ==
    IF _should_fiscalize(m)
    THEN AutoConfig(config) /\ m.zimra_status = "pending"
    ELSE FALSE

\* The loop body of action_post, after super().action_post().
PostLoop(w, id, config, o) ==
    IF PostSubmits(w.moves[id], config) THEN Submit(w, id, config, o) ELSE w

\* The outcomes a block meets: those of a submission when it submits.
BlockMeets(E, submits, m, config) ==
    IF submits THEN Meets(E, m, config) ELSE {NoOutcome}

\* action_post: super().action_post() posts a draft document by
\* write({'state': 'posted'}), with payment_state = 'paid' in the same write
\* when paid.
action_post(E, id) ==
    /\ id \in Created
    /\ moves[id].state = "draft"
    /\ \E config \in Configs, paid \in BOOLEAN :
         LET w0 == [World([moves EXCEPT ![id].state = "posted"])
                      EXCEPT !.sub[id].config = config] IN
         \E o1 \in BlockMeets(E, WriteSubmits(w0.moves[id], config), w0.moves[id], config) :
           LET w1 == write(w0, id, TRUE, FALSE, config, o1, o1) IN
           \E o2 \in BlockMeets(E, paid /\ WriteSubmits(w1.moves[id], config), w1.moves[id], config) :
             LET w2 == write(w1, id, FALSE, paid, config, o2, o2) IN
             \E o3 \in BlockMeets(E, PostSubmits(w2.moves[id], config), w2.moves[id], config) :
               Done(PostLoop(w2, id, config, o3), "action_post", id, "")

\* write({'payment_state': 'paid'}) on its own.
write_paid(E, id) ==
    /\ id \in Created
    /\ \E config \in Configs :
         LET w0 == World(moves) IN
         \E o \in BlockMeets(E, WriteSubmits(w0.moves[id], config), w0.moves[id], config) :
           Done(write(w0, id, FALSE, TRUE, config, o, o), "write_paid", id, "")

\* Mutant: button_cancel marks a failed document cancelled as well.
button_cancel_AlsoFailed(id) ==
    /\ id \in Created
    /\ LET w0 == World([moves EXCEPT ![id].state = "cancel"])
       IN  IF w0.moves[id].zimra_status \in {"fiscalized", "failed"}
           THEN Done(SetStatus(w0, id, "cancelled"), "button_cancel", id, "")
           ELSE Done(w0, "button_cancel", id, "")

button_cancel(id) ==
    /\ id \in Created
    /\ LET w0 == World([moves EXCEPT ![id].state = "cancel"])
       IN  IF w0.moves[id].zimra_status = "fiscalized"
           THEN Done(SetStatus(w0, id, "cancelled"), "button_cancel", id, "")
           ELSE Done(w0, "button_cancel", id, "")

\* Mutant: the write of button_draft without zimra_response.
ResetToDraft_KeepsResponse(m) ==
    [m EXCEPT !.zimra_status = "pending",
              !.zimra_fiscal_number = "",
              !.zimra_error = "",
              !.zimra_sent_date = "",
              !.zimra_fiscalized_date = "",
              !.zimra_qr_code = "",
              !.zimra_verification_url = "",
              !.fiscal_pdf_attachment_id = 0,
              !.fiscalized_pdf = ""]

\* Mutant: the write of button_draft without fiscal_pdf_attachment_id.
ResetToDraft_KeepsAttachment(m) ==
    [m EXCEPT !.zimra_status = "pending",
              !.zimra_fiscal_number = "",
              !.zimra_response = "",
              !.zimra_error = "",
              !.zimra_sent_date = "",
              !.zimra_fiscalized_date = "",
              !.zimra_qr_code = "",
              !.zimra_verification_url = "",
              !.fiscalized_pdf = ""]

\* Mutant: the write of button_draft also starts the retry count over.
ResetToDraft_ResetsRetryCount(m) ==
    [m EXCEPT !.zimra_status = "pending",
              !.zimra_fiscal_number = "",
              !.zimra_response = "",
              !.zimra_error = "",
              !.zimra_sent_date = "",
              !.zimra_fiscalized_date = "",
              !.zimra_retry_count = 0,
              !.zimra_qr_code = "",
              !.zimra_verification_url = "",
              !.fiscal_pdf_attachment_id = 0,
              !.fiscalized_pdf = ""]

\* The write of button_draft.
ResetToDraft(m) ==
    [m EXCEPT !.zimra_status = "pending",
              !.zimra_fiscal_number = "",
              !.zimra_response = "",
              !.zimra_error = "",
              !.zimra_sent_date = "",
              !.zimra_fiscalized_date = "",
              !.zimra_qr_code = "",
              !.zimra_verification_url = "",
              !.fiscal_pdf_attachment_id = 0,
              !.fiscalized_pdf = ""]

button_draft(id) ==
    /\ id \in Created
    /\ LET w0 == World([moves EXCEPT ![id].state = "draft"])
       IN  IF w0.moves[id].zimra_status \in {"fiscalized", "sent"}
           THEN Done([w0 EXCEPT !.moves[id] = ResetToDraft(@),
                                !.sub[id].trail = Append(@, "pending")],
                     "button_draft", id, "")
           ELSE Done(w0, "button_draft", id, "")

\* The body of action_fiscalize_invoice: the world it leaves and the title of
\* the notification it returns.
FiscalizeInvoice(w, id, config, o) ==
    IF ~is_invoice(w.moves[id], FALSE)
    THEN [w |-> w, title |-> "Invalid Document"]
    ELSE IF w.moves[id].zimra_status \in {"fiscalized", "sent"}
    THEN [w |-> w, title |-> "Already Fiscalized"]
    ELSE LET w1 == Submit(w, id, config, o) IN
         [w |-> w1,
          title |-> IF w1.sub[id].result THEN "Fiscalization Successful"
                    ELSE "Fiscalization Failed"]

\* The outcomes action_fiscalize_invoice can meet on m.
FiscalizeMeets(E, m, config) ==
    BlockMeets(E, is_invoice(m, FALSE) /\ m.zimra_status \notin {"fiscalized", "sent"}, m, config)

action_fiscalize_invoice(E, id) ==
    /\ id \in Created
    /\ \E config \in Configs :
         \E o \in FiscalizeMeets(E, moves[id], config) :
           LET r == FiscalizeInvoice(World(moves), id, config, o)
           IN  Done(r.w, "action_fiscalize_invoice", id, r.title)

\* Mutant: the retry refuses fiscalized documents only.
action_retry_fiscalization_UnlessFiscalized(E, id) ==
    /\ id \in Created
    /\ IF moves[id].zimra_status = "fiscalized"
       THEN Done(World(moves), "action_retry_fiscalization", id, "Cannot Retry")
       ELSE LET w0 == [SetStatus(World(moves), id, "pending")
                         EXCEPT !.moves[id].zimra_error = ""]
            IN  \E config \in Configs :
                  \E o \in FiscalizeMeets(E, w0.moves[id], config) :
                    LET r == FiscalizeInvoice(w0, id, config, o)
                    IN  Done(r.w, "action_retry_fiscalization", id, r.title)

action_retry_fiscalization(E, id) ==
    /\ id \in Created
    /\ IF moves[id].zimra_status # "failed"
       THEN Done(World(moves), "action_retry_fiscalization", id, "Cannot Retry")
       ELSE LET w0 == [SetStatus(World(moves), id, "pending")
                         EXCEPT !.moves[id].zimra_error = ""]
            IN  \E config \in Configs :
                  \E o \in FiscalizeMeets(E, w0.moves[id], config) :
                    LET r == FiscalizeInvoice(w0, id, config, o)
                    IN  Done(r.w, "action_retry_fiscalization", id, r.title)

\* Mutant: the search without the cap on zimra_retry_count.
FailedInvoices_NoCap(ms) ==
    { d \in 1..Len(ms) : ms[d].zimra_status = "failed" }

\* search([('zimra_status', '=', 'failed'), ('zimra_retry_count', '<', 3)])
FailedInvoices(ms) ==
    { d \in 1..Len(ms) : ms[d].zimra_status = "failed" /\ ms[d].zimra_retry_count < MaxRetry }

\* The for loop of the retry job over the selected documents, by id; os
\* gives what the try block meets for each document that enters it.
\* Mutant: the loop ends at the first submission that fails.
RECURSIVE Sweep_StopsAtFailure(_, _, _, _, _)
Sweep_StopsAtFailure(w, d, failed_invoices, config, os) ==
    IF d > Len(w.moves) THEN w
    ELSE IF d \in failed_invoices
    THEN LET w1 == [Submit(w, d, config, IF d \in DOMAIN os THEN os[d] ELSE NoOutcome)
                      EXCEPT !.sub[d].swept = @ + 1]
         IN  IF w1.sub[d].result THEN Sweep_StopsAtFailure(w1, d + 1, failed_invoices, config, os)
             ELSE w1
    ELSE Sweep_StopsAtFailure(w, d + 1, failed_invoices, config, os)

RECURSIVE Sweep(_, _, _, _, _)
Sweep(w, d, failed_invoices, config, os) ==
    IF d > Len(w.moves) THEN w
    ELSE IF d \in failed_invoices
    THEN Sweep([Submit(w, d, config, IF d \in DOMAIN os THEN os[d] ELSE NoOutcome)
                  EXCEPT !.sub[d].swept = @ + 1],
               d + 1, failed_invoices, config, os)
    ELSE Sweep(w, d + 1, failed_invoices, config, os)

\* The sweeps in a row are followed up to MaxSweeps submissions of a document.
cron_retry_failed_fiscalization(E) ==
    /\ Len(moves) > 0
    /\ \E config \in Configs :
         LET failed_invoices == FailedInvoices(moves)
             entering == { d \in failed_invoices : Meets(E, moves[d], config) = E.outcomes }
             w0 == [World(moves) EXCEPT
                      !.sub = [d \in Ids |-> [@[d] EXCEPT !.swept = last.sub[d].swept]]]
         IN  /\ \A d \in failed_invoices : last.sub[d].swept < MaxSweeps
             /\ \E os \in [entering -> E.outcomes] :
                   Done(Sweep(w0, 1, failed_invoices, config, os),
                        "cron_retry_failed_fiscalization", 0, "")

\* What config.download_pdf gives: the PDF, a status code, or an exception.
Downloads == {"pdf", "status", "raise"}

action_download_fiscal_pdf(id) ==
    /\ id \in Created
    /\ IF ~Truthy(moves[id].fiscalized_pdf)
       THEN Done(World(moves), "action_download_fiscal_pdf", id, "No PDF Available")
       ELSE \E config \in Configs :
              IF ~config.active
              THEN Done(World(moves), "action_download_fiscal_pdf", id, "Configuration Error")
              ELSE \E pdf_data \in Downloads :
                     IF pdf_data = "raise"
                     THEN Done(World(moves), "action_download_fiscal_pdf", id, "Download Error")
                     ELSE IF pdf_data = "status"
                     THEN Done(World(moves), "action_download_fiscal_pdf", id, "Download Failed")
                     ELSE Done(World(IF moves[id].fiscal_pdf_attachment_id # 0 THEN moves
                                     ELSE [moves EXCEPT ![id].fiscal_pdf_attachment_id = id]),
                               "action_download_fiscal_pdf", id, "")

NextIn(E) ==
    \/ create(E)
    \/ \E id \in Ids : action_post(E, id)
    \/ \E id \in Ids : write_paid(E, id)
    \/ \E id \in Ids : button_cancel(id)
    \/ \E id \in Ids : button_draft(id)
    \/ \E id \in Ids : action_fiscalize_invoice(E, id)
    \/ \E id \in Ids : action_retry_fiscalization(E, id)
    \/ cron_retry_failed_fiscalization(E)
    \/ \E id \in Ids : action_download_fiscal_pdf(id)

Next == NextIn(Full)

Spec == Init /\ [][Next]_vars

\* The retry job over several documents: they are created, posted, submitted
\* by hand, cancelled, and swept.
NextBatch ==
    \/ create(Batch)
    \/ \E id \in Ids : action_post(Batch, id)
    \/ \E id \in Ids : button_cancel(id)
    \/ \E id \in Ids : action_fiscalize_invoice(Batch, id)
    \/ \E id \in Ids : action_retry_fiscalization(Batch, id)
    \/ cron_retry_failed_fiscalization(Batch)

SpecBatch == Init /\ [][NextBatch]_vars

\* ------------------------------------------- the eligibility predicate
\* _should_fiscalize on its own: one document of any type, in any posting
\* state and any zimra_status, and the call; last.ret is what it returned.
InitEligibility ==
    /\ \E move_type \in AllMoveTypes, state \in States, status \in ZimraStatus :
         moves = <<[NewMove(move_type, state) EXCEPT !.zimra_status = status]>>
    /\ zimra_invoice = <<>>
    /\ last = [op |-> "init", id |-> 0, title |-> "", sub |-> Sub0, pre |-> <<>>]
    /\ tax_mapping = <<>>

call_should_fiscalize ==
    /\ last.op = "init"
    /\ last' = [op |-> "_should_fiscalize", id |-> 1, title |-> "", sub |-> Sub0,
                pre |-> moves, ret |-> _should_fiscalize(moves[1])]
    /\ UNCHANGED <<moves, zimra_invoice, tax_mapping>>

SpecEligibility == InitEligibility /\ [][call_should_fiscalize]_vars

\* ------------------------------------------------------ the payload builder
\* _prepare_zimra_invoice_data on its own: one posted customer invoice or
\* credit note with totals and one line of every sign, and the call; last.ret
\* is the payload.  Amounts are hundredths, the discount is whole percents.
Totals == {Frac(-1150, 100), Frac(0, 100), Frac(1150, 100)}

LineTotals == {Frac(-431, 100), Frac(0, 100), Frac(431, 100)}

Prices == {Frac(-250, 100), Frac(0, 100), Frac(250, 100)}

Quantities == {Frac(-150, 100), Frac(0, 100), Frac(150, 100)}

Discounts == {Frac(-10, 1), Frac(0, 1), Frac(10, 1)}

Lines ==
    [display_type : {""}, price_unit : Prices, quantity : Quantities,
     discount : Discounts, price_total : LineTotals]
    \cup [display_type : {"line_section"}, price_unit : {Zero}, quantity : {Zero},
          discount : {Zero}, price_total : {Zero}]

InitPayload ==
    /\ \E move_type \in {"out_invoice", "out_refund"},
          amount_untaxed \in Totals, amount_tax \in Totals, amount_total \in Totals,
          line \in Lines :
         moves = <<NewMove(move_type, "posted")
                   @@ [amount_untaxed |-> amount_untaxed, amount_tax |-> amount_tax,
                       amount_total |-> amount_total, invoice_line_ids |-> <<line>>]>>
    /\ zimra_invoice = <<>>
    /\ last = [op |-> "init", id |-> 0, title |-> "", sub |-> Sub0, pre |-> <<>>]
    /\ tax_mapping = <<>>

call_prepare_zimra_invoice_data ==
    /\ last.op = "init"
    /\ last' = [op |-> "_prepare_zimra_invoice_data", id |-> 1, title |-> "",
                sub |-> Sub0, pre |-> moves,
                ret |-> _prepare_zimra_invoice_data(moves[1]) @@ PayloadAmounts(moves[1])]
    /\ UNCHANGED <<moves, zimra_invoice, tax_mapping>>

SpecPayload == InitPayload /\ [][call_prepare_zimra_invoice_data]_vars

\* ------------------------------------------------------ zimra.tax.mapping
\* The table of tax mappings (models/zimra_tax_mapping.py): the configuration
\* a mapping belongs to, the tax it maps (0: none; the field is not required)
\* and the rate.  create and write are the ORM's, followed by the methods
\* decorated with api.constrains: an exception of a constraint rolls the
\* operation back, what a constraint returns is ignored.
ConfigIds == {1, 2}

TaxIds == {0, 1, 2}

Rates == {15, 101}

\* _check_tax_rate raises for record.
_check_tax_rate(record) ==
    record.zimra_tax_rate < 0 \/ record.zimra_tax_rate > 100

\* search([('config_id', '=', ...), ('odoo_tax_id', '=', ...), ('id', '!=', record.id)])
Existing(table, i) ==
    { j \in 1..Len(table) :
        /\ table[j].config_id = table[i].config_id
        /\ table[j].odoo_tax_id = table[i].odoo_tax_id
        /\ j # i }

\* _check_unique_tax_mapping on record i: it never raises; what it returns is
\* the notification when another record has the pair, None otherwise.
_check_unique_tax_mapping(table, i) ==
    [raises |-> FALSE,
     returns |-> IF Existing(table, i) # {} THEN "Taxes Already Synced" ELSE None]

\* The constraints that run after the fields of names were set on record i
\* raise.
ConstraintRaises(table, i, names) ==
    \/ "zimra_tax_rate" \in names /\ _check_tax_rate(table[i])
    \/ names \cap {"config_id", "odoo_tax_id"} # {}
         /\ _check_unique_tax_mapping(table, i).raises

\* The call config_id.save_taxmapping(rec) of create and write happens.
CallsSaveTaxmapping(table, i, names) ==
    /\ "odoo_tax_id" \in names
    /\ table[i].odoo_tax_id # 0
    /\ table[i].config_id # 0

\* The operation on the table ends: saved, or rolled back by the exception of
\* a constraint or of save_taxmapping (a method of zimra.config that sends the
\* mapping to the service: it returns, or raises).
TaxDone(table, i, names, op) ==
    \E save_taxmapping \in IF ~ConstraintRaises(table, i, names)
                               /\ CallsSaveTaxmapping(table, i, names)
                            THEN {"returns", "raises"} ELSE {"not called"} :
        /\ tax_mapping' = IF ConstraintRaises(table, i, names) \/ save_taxmapping = "raises"
                          THEN tax_mapping ELSE table
        /\ last' = [op |-> op, id |-> i, title |-> "", sub |-> Sub0, pre |-> moves,
                    ret |-> IF ConstraintRaises(table, i, names) THEN "ValidationError"
                            ELSE IF save_taxmapping = "raises" THEN "Exception"
                            ELSE "saved"]
        /\ UNCHANGED <<moves, zimra_invoice>>

\* create(vals) with vals naming the three fields.
tax_mapping_create ==
    /\ Len(tax_mapping) < MaxMappings
    /\ \E config_id \in ConfigIds, odoo_tax_id \in TaxIds, zimra_tax_rate \in Rates :
         TaxDone(Append(tax_mapping,
                        [config_id |-> config_id, odoo_tax_id |-> odoo_tax_id,
                         zimra_tax_rate |-> zimra_tax_rate]),
                 Len(tax_mapping) + 1,
                 {"config_id", "odoo_tax_id", "zimra_tax_rate"},
                 "tax_mapping_create")

\* write(vals) on record i with vals naming one field.
tax_mapping_write ==
    \E i \in 1..Len(tax_mapping) :
        \/ \E config_id \in ConfigIds :
             TaxDone([tax_mapping EXCEPT ![i].config_id = config_id], i,
                     {"config_id"}, "tax_mapping_write")
        \/ \E odoo_tax_id \in TaxIds :
             TaxDone([tax_mapping EXCEPT ![i].odoo_tax_id = odoo_tax_id], i,
                     {"odoo_tax_id"}, "tax_mapping_write")
        \/ \E zimra_tax_rate \in Rates :
             TaxDone([tax_mapping EXCEPT ![i].zimra_tax_rate = zimra_tax_rate], i,
                     {"zimra_tax_rate"}, "tax_mapping_write")

NextTaxMapping == tax_mapping_create \/ tax_mapping_write

SpecTaxMapping == Init /\ [][NextTaxMapping]_vars

\* ------------------------------------------------------------ properties
\* The documents _send_to_zimra was invoked on during the last operation.
Submitted == { d \in Created : last.sub[d].n > 0 }

\* The transport answered (it was called and did not raise) for document d.
Answered(d) == last.sub[d].call.called /\ ~last.sub[d].o.tr.raises

\* The first element of the answer for d, when it is a non-empty JSON array.
AnsweredList(d) ==
    /\ Answered(d)
    /\ last.sub[d].o.tr.data.kind = "list"
    /\ Len(last.sub[d].o.tr.data.items) > 0

FirstElem(d) == last.sub[d].o.tr.data.items[1]

\* Every fiscalization artifact of m is empty.
ArtifactsCleared(m) ==
    /\ m.zimra_fiscal_number = ""
    /\ m.zimra_qr_code = ""
    /\ m.zimra_verification_url = ""
    /\ m.fiscalized_pdf = ""
    /\ m.fiscal_pdf_attachment_id = 0

\* C1: a document whose zimra_fiscal_number is non-empty has zimra_status
\* 'fiscalized', in every reachable state.
C1_FiscalNumberOnlyWhenFiscalized ==
    \A d \in Created :
        moves[d].zimra_fiscal_number # "" => moves[d].zimra_status = "fiscalized"

\* C2 as stated: button_draft, on a document in any zimra_status, leaves
\* zimra_status 'pending' and number, QR code, URL, PDF, attachment, error and
\* response empty.
C2_DraftClearsAnyStatus ==
    last.op = "button_draft" =>
        /\ moves[last.id].zimra_status = "pending"
        /\ ArtifactsCleared(moves[last.id])
        /\ moves[last.id].zimra_error = ""
        /\ moves[last.id].zimra_response = ""

\* C2 amended: button_draft on a document whose zimra_status is 'fiscalized'
\* or 'sent' leaves zimra_status 'pending' and number, QR code, URL, PDF,
\* attachment, error and response empty; on a document in any other status it
\* changes neither zimra_status nor any fiscal field.
C2_DraftClearsFiscalizedOrSent ==
    last.op = "button_draft" =>
        LET before == last.pre[last.id]
            after  == moves[last.id]
        IN  IF before.zimra_status \in {"fiscalized", "sent"}
            THEN /\ after.zimra_status = "pending"
                 /\ ArtifactsCleared(after)
                 /\ after.zimra_error = ""
                 /\ after.zimra_response = ""
            ELSE after = [before EXCEPT !.state = "draft"]

\* A fiscalized document that held a response was reverted and holds none.
C2_Witness ==
    /\ last.op = "button_draft"
    /\ last.pre[last.id].zimra_status = "fiscalized"
    /\ last.pre[last.id].zimra_response # ""
    /\ last.pre[last.id].zimra_fiscal_number # ""
    /\ moves[last.id].zimra_status = "pending"
    /\ moves[last.id].zimra_response = ""

\* C3: button_draft on a fiscalized document leaves zimra_status 'pending'
\* and zimra_fiscal_number, zimra_qr_code, zimra_verification_url,
\* fiscalized_pdf and fiscal_pdf_attachment_id cleared.
C3_DraftOfFiscalized ==
    (last.op = "button_draft" /\ last.pre[last.id].zimra_status = "fiscalized") =>
        /\ moves[last.id].zimra_status = "pending"
        /\ ArtifactsCleared(moves[last.id])

\* A fiscalized document holding every artifact was reverted to draft.
C3_Witness ==
    /\ last.op = "button_draft"
    /\ last.pre[last.id].zimra_status = "fiscalized"
    /\ last.pre[last.id].zimra_fiscal_number # ""
    /\ last.pre[last.id].zimra_qr_code # ""
    /\ last.pre[last.id].zimra_verification_url # ""
    /\ last.pre[last.id].fiscalized_pdf # ""
    /\ last.pre[last.id].fiscal_pdf_attachment_id # 0
    /\ ArtifactsCleared(moves[last.id])

\* C4: every invocation of _send_to_zimra returns a boolean and does not
\* raise; on return zimra_status is fiscalized, failed or exempted, and the
\* result is False exactly when zimra_status is failed.
C4_SubmissionReturns ==
    \A d \in Submitted :
        /\ last.sub[d].result \in BOOLEAN
        /\ ~last.sub[d].raised
        /\ moves[d].zimra_status \in {"fiscalized", "failed", "exempted"}
        /\ (last.sub[d].result = FALSE) <=> (moves[d].zimra_status = "failed")

\* A submission whose transport timed out returned False and left 'failed'.
C4_Witness ==
    \E d \in Submitted :
        /\ last.sub[d].call.called
        /\ last.sub[d].o.tr.raises
        /\ last.sub[d].result = FALSE
        /\ moves[d].zimra_status = "failed"

\* C5: a sweep of the retry job invokes _send_to_zimra only on documents that
\* were 'failed' with zimra_retry_count below 3; every other document keeps
\* all its fields and gets no transport call.
C5_SweepTouchesOnlySelected ==
    last.op = "cron_retry_failed_fiscalization" =>
        \A d \in 1..Len(last.pre) :
            LET selected == /\ last.pre[d].zimra_status = "failed"
                            /\ last.pre[d].zimra_retry_count < 3
            IN  /\ last.sub[d].n > 0 => selected
                /\ ~selected => /\ moves[d] = last.pre[d]
                                /\ last.sub[d].n = 0
                                /\ last.sub[d].calls = 0
                                /\ last.sub[d].rows = 0

\* A sweep submitted one failed document and skipped one that was failed with
\* three attempts behind it.
C5_Witness ==
    /\ last.op = "cron_retry_failed_fiscalization"
    /\ \E d \in 1..Len(last.pre) :
         /\ last.sub[d].n = 1
         /\ last.sub[d].calls = 1
    /\ \E d \in 1..Len(last.pre) :
         /\ last.pre[d].zimra_status = "failed"
         /\ last.pre[d].zimra_retry_count >= 3
         /\ last.sub[d].n = 0

\* C6: with no active configuration, _send_to_zimra leaves zimra_status
\* 'failed' and the missing-configuration error, calls no transport and
\* creates no audit-log row.
C6_NoConfiguration ==
    \A d \in Submitted :
        ~last.sub[d].config_active =>
            /\ moves[d].zimra_status = "failed"
            /\ moves[d].zimra_error = "No active FiscalHarmony configuration found"
            /\ last.sub[d].calls = 0
            /\ last.sub[d].rows = 0

\* An eligible pending document was submitted without a configuration.
C6_Witness ==
    \E d \in Submitted :
        /\ ~last.sub[d].config_active
        /\ last.sub[d].status_before = "pending"
        /\ moves[d].state = "posted"
        /\ moves[d].move_type = "out_invoice"
        /\ moves[d].zimra_status = "failed"

\* The document d was eligible when _send_to_zimra was last invoked on it.
EligibleBefore(d) ==
    /\ moves[d].move_type \in {"out_invoice", "out_refund"}
    /\ moves[d].state = "posted"
    /\ last.sub[d].status_before \notin {"fiscalized", "exempted"}

\* The transport returned a non-empty list whose first element has an empty
\* or absent Error.
AcceptedAnswer(d) ==
    /\ AnsweredList(d)
    /\ FirstElem(d).Error \in {"", None}

\* C7: for an eligible document with an active configuration, submission
\* ends 'fiscalized' exactly when the transport returned a non-empty list
\* whose first element's Error is empty or absent; then zimra_fiscal_number
\* is "{InvoiceNumber}/{FiscalDay}" and zimra_error is empty; for every other
\* transport result it ends 'failed'.
C7_FiscalizedIffAccepted ==
    \A d \in Submitted :
        (last.sub[d].config_active /\ EligibleBefore(d)) =>
            /\ (moves[d].zimra_status = "fiscalized") <=> AcceptedAnswer(d)
            /\ AcceptedAnswer(d) =>
                 /\ moves[d].zimra_fiscal_number =
                      FirstElem(d).InvoiceNumber \o "/" \o FirstElem(d).FiscalDay
                 /\ moves[d].zimra_error = ""
            /\ ~AcceptedAnswer(d) => moves[d].zimra_status = "failed"

\* The documented scenario: [{"FiscalDay": "12", "InvoiceNumber":
\* "INV-001", "Error": ""}] gives fiscal number "INV-001/12".
C7_Witness ==
    \E d \in Submitted :
        /\ AcceptedAnswer(d)
        /\ FirstElem(d).InvoiceNumber = "INV-001"
        /\ FirstElem(d).FiscalDay = "12"
        /\ moves[d].zimra_status = "fiscalized"
        /\ moves[d].zimra_fiscal_number = "INV-001/12"

\* C8: when the transport returns a list whose first element carries a
\* non-empty Error E, submission ends 'failed' with zimra_error = E and
\* zimra_retry_count one greater than before the call.
C8_RejectedByAuthority ==
    \A d \in Submitted :
        (AnsweredList(d) /\ FirstElem(d).Error \notin {"", None}) =>
            /\ moves[d].zimra_status = "failed"
            /\ moves[d].zimra_error = FirstElem(d).Error
            /\ moves[d].zimra_retry_count = last.sub[d].retry_before + 1

\* The documented scenario: a first submission answered
\* [{"Error": "Invalid TIN"}] leaves failed, "Invalid TIN", retry count 1.
C8_Witness ==
    \E d \in Submitted :
        /\ AnsweredList(d)
        /\ FirstElem(d).Error = "Invalid TIN"
        /\ FirstElem(d).RequestId = None
        /\ last.sub[d].retry_before = 0
        /\ moves[d].zimra_status = "failed"
        /\ moves[d].zimra_error = "Invalid TIN"
        /\ moves[d].zimra_retry_count = 1

\* C9 as stated: an invocation creates at most one audit-log row, exactly one
\* whenever it ends fiscalized or failed for a reason other than a missing
\* configuration, and zero rows only on the missing-configuration
\* short-circuit.
C9_OneRowUnlessNoConfiguration ==
    \A d \in Submitted :
        last.sub[d].n = 1 =>
            /\ last.sub[d].rows <= 1
            /\ (\/ moves[d].zimra_status = "fiscalized"
                \/ (moves[d].zimra_status = "failed" /\ last.sub[d].config_active))
               => last.sub[d].rows = 1
            /\ last.sub[d].rows = 0 => ~last.sub[d].config_active

\* C9 amended: an invocation creates at most one audit-log row; it creates
\* exactly one whenever it ends fiscalized, or ends failed after the transport
\* was invoked; it creates none on the missing-configuration short-circuit, on
\* the not-eligible (exempted) short-circuit, and when building the payload or
\* creating the row raises.
C9_OneRowOncePastTheChecks ==
    \A d \in Submitted :
        last.sub[d].n = 1 =>
            /\ last.sub[d].rows <= 1
            /\ moves[d].zimra_status = "fiscalized" => last.sub[d].rows = 1
            /\ last.sub[d].call.called => last.sub[d].rows = 1
            /\ (last.sub[d].rows = 0) <=>
                 \/ ~last.sub[d].config_active
                 \/ ~EligibleBefore(d)
                 \/ last.sub[d].o.fault \in {"build", "create"}
            /\ last.sub[d].rows = 1 =>
                 \E i \in 1..Len(zimra_invoice) :
                     /\ zimra_invoice[i].account_move_id = d
                     /\ zimra_invoice[i].status = moves[d].zimra_status

\* Both ends of the amended claim: a rejected submission left its one row,
\* and the table holds it as the newest row.
C9_Witness ==
    \E d \in Submitted :
        /\ last.sub[d].n = 1
        /\ last.sub[d].rows = 1
        /\ moves[d].zimra_status = "failed"
        /\ Len(zimra_invoice) > 0
        /\ zimra_invoice[Len(zimra_invoice)].status = "failed"
        /\ zimra_invoice[Len(zimra_invoice)].account_move_id = d

\* The transitions of zimra_status the state machine allows.
AllowedTransitions ==
    { <<"pending", "sent">>, <<"sent", "fiscalized">>, <<"sent", "failed">>,
      <<"fiscalized", "cancelled">>, <<"fiscalized", "pending">>,
      <<"sent", "pending">>, <<"failed", "pending">>, <<"pending", "exempted">> }

\* The status of d before the i-th assignment of the last operation; a
\* document created by the operation starts from the field's default.
StatusBefore(d, i) ==
    IF i > 1 THEN last.sub[d].trail[i - 1]
    ELSE IF d <= Len(last.pre) THEN last.pre[d].zimra_status
    ELSE "pending"

\* C10: every change of a document's zimra_status made by any operation is
\* one of the allowed transitions.
C10_OnlyAllowedTransitions ==
    \A d \in Created :
        \A i \in 1..Len(last.sub[d].trail) :
            StatusBefore(d, i) # last.sub[d].trail[i] =>
                <<StatusBefore(d, i), last.sub[d].trail[i]>> \in AllowedTransitions

\* The statuses that end a document's fiscalization.
Terminal == {"fiscalized", "exempted", "cancelled"}

\* C11: no operation moves zimra_status directly from one of fiscalized,
\* exempted, cancelled to another of the three; zimra_status goes back to
\* 'pending' only by button_draft and by action_retry_fiscalization of a
\* failed document.
C11_TerminalStatusesApart ==
    \A d \in Created :
        \A i \in 1..Len(last.sub[d].trail) :
            LET from == StatusBefore(d, i)
                to   == last.sub[d].trail[i]
            IN  /\ (from \in Terminal /\ to \in Terminal) => from = to
                /\ (to = "pending" /\ from # "pending") =>
                     \/ last.op = "button_draft"
                     \/ last.op = "action_retry_fiscalization" /\ from = "failed"

\* C12: _should_fiscalize is true exactly when the document is a customer
\* invoice or credit note (out_invoice or out_refund), its state is posted and
\* its zimra_status is neither fiscalized nor exempted.
C12_EligibleIff ==
    last.op = "_should_fiscalize" =>
        (last.ret = TRUE) <=>
            /\ moves[1].move_type = "out_invoice" \/ moves[1].move_type = "out_refund"
            /\ moves[1].state = "posted"
            /\ moves[1].zimra_status # "fiscalized"
            /\ moves[1].zimra_status # "exempted"

\* The predicate held of a posted credit note whose last submission failed.
C12_Witness ==
    /\ last.op = "_should_fiscalize"
    /\ last.ret = TRUE
    /\ moves[1].move_type = "out_refund"
    /\ moves[1].state = "posted"
    /\ moves[1].zimra_status = "failed"

\* The retry count of d before the last operation; a document the operation
\* created starts from the field's default.
RetryCountBefore(d) ==
    IF d <= Len(last.pre) THEN last.pre[d].zimra_retry_count ELSE 0

\* C13: no operation decreases zimra_retry_count, and every submission that
\* reaches the transport call increases it by exactly one.
C13_RetryCountMonotone ==
    \A d \in Created :
        /\ moves[d].zimra_retry_count >= RetryCountBefore(d)
        /\ last.sub[d].call.called =>
              /\ last.sub[d].call.zimra_retry_count = last.sub[d].retry_before + 1
              /\ moves[d].zimra_retry_count = last.sub[d].retry_before + 1

\* A manual retry of a failed document that had one attempt behind it reached
\* the transport and left the count at two.
C13_Witness ==
    /\ last.op = "action_retry_fiscalization"
    /\ last.pre[last.id].zimra_status = "failed"
    /\ last.pre[last.id].zimra_retry_count = 1
    /\ last.sub[last.id].call.called
    /\ moves[last.id].zimra_retry_count = 2

\* C14: button_cancel sets zimra_status to 'cancelled' exactly when it was
\* 'fiscalized' before and leaves it unchanged otherwise; it makes no
\* transport call and modifies no other fiscal field.
C14_CancelMarksFiscalized ==
    last.op = "button_cancel" =>
        LET before == last.pre[last.id]
            after  == moves[last.id]
        IN  /\ (after.zimra_status = "cancelled" /\ before.zimra_status # "cancelled")
                  <=> before.zimra_status = "fiscalized"
            /\ before.zimra_status # "fiscalized" =>
                  after.zimra_status = before.zimra_status
            /\ [after EXCEPT !.zimra_status = "", !.state = ""]
                  = [before EXCEPT !.zimra_status = "", !.state = ""]
            /\ \A d \in Created :
                  /\ last.sub[d].n = 0
                  /\ last.sub[d].calls = 0
                  /\ last.sub[d].rows = 0

\* A fiscalized document holding its fiscal number was cancelled.
C14_Witness ==
    /\ last.op = "button_cancel"
    /\ last.pre[last.id].zimra_status = "fiscalized"
    /\ last.pre[last.id].zimra_fiscal_number # ""
    /\ moves[last.id].zimra_status = "cancelled"
    /\ moves[last.id].zimra_fiscal_number = last.pre[last.id].zimra_fiscal_number

\* C15: action_post submits the document exactly when it is eligible, its
\* zimra_status is pending and the company's active configuration has
\* auto-fiscalization enabled; with auto-fiscalization disabled or no active
\* configuration it makes no transport call and a pending document stays
\* pending.
C15_PostSubmitsWhenAutoEnabled ==
    last.op = "action_post" =>
        LET d      == last.id
            before == last.pre[d]
            config == last.sub[d].config
            enabled == config.active /\ config.auto_fiscalize
        IN  /\ (last.sub[d].n > 0) <=>
                  /\ before.move_type \in {"out_invoice", "out_refund"}
                  /\ before.zimra_status = "pending"
                  /\ enabled
            /\ ~enabled =>
                  /\ last.sub[d].calls = 0
                  /\ before.zimra_status = "pending" => moves[d].zimra_status = "pending"

\* A formatted number that is not negative: digits and a decimal point, no
\* minus sign.
NonNegative(text) ==
    /\ Len(text) > 0
    /\ \A i \in 1..Len(text) :
          text[i] = "." \/ \E k \in 1..Len(DigitChars) : text[i] = DigitChars[k]

\* C16: for a credit note (out_refund), SubTotal, TotalTax, Total and every
\* line's UnitAmount, LineAmount, DiscountAmount and Quantity in the payload
\* are non-negative, whatever the signs of the totals, the quantity, the price
\* and the discount, a zero quantity included.
C16_CreditNoteNonNegative ==
    (last.op = "_prepare_zimra_invoice_data" /\ moves[1].move_type = "out_refund") =>
        /\ NonNegative(last.ret.SubTotal)
        /\ NonNegative(last.ret.TotalTax)
        /\ NonNegative(last.ret.Total)
        /\ \A i \in 1..Len(last.ret.LineItems) :
              /\ NonNegative(last.ret.LineItems[i].UnitAmount)
              /\ NonNegative(last.ret.LineItems[i].LineAmount)
              /\ NonNegative(last.ret.LineItems[i].DiscountAmount)
              /\ NonNegative(last.ret.LineItems[i].Quantity)

\* A credit note with negative totals, quantity, price and discount was
\* built: 11.50 for the totals, 4.31 / 1.50 = 2.873 a unit and a discount of
\* 2.50 * 1.50 * 10 / 100 = 0.375, printed 0.38.
C16_Witness ==
    /\ last.op = "_prepare_zimra_invoice_data"
    /\ moves[1].move_type = "out_refund"
    /\ moves[1].amount_untaxed.num < 0
    /\ moves[1].amount_tax.num < 0
    /\ moves[1].amount_total.num < 0
    /\ moves[1].invoice_line_ids[1].quantity.num < 0
    /\ moves[1].invoice_line_ids[1].price_unit.num < 0
    /\ moves[1].invoice_line_ids[1].discount.num < 0
    /\ moves[1].invoice_line_ids[1].price_total.num < 0
    /\ last.ret.SubTotal = <<"1", "1", ".", "5", "0">>
    /\ Len(last.ret.LineItems) = 1
    /\ last.ret.LineItems[1].UnitAmount = <<"2", ".", "8", "7", "3">>
    /\ last.ret.LineItems[1].LineAmount = <<"4", ".", "3", "1">>
    /\ last.ret.LineItems[1].DiscountAmount = <<"0", ".", "3", "8">>
    /\ last.ret.LineItems[1].Quantity = <<"1", ".", "5", "0", "0">>

\* C17: whenever a submission reaches the transport call, at the moment the
\* transport is invoked the document's zimra_status is 'sent', its
\* zimra_retry_count has been incremented, zimra_sent_date is stamped and the
\* audit-log row of the attempt is 'sent'.
C17_SentAtTransportCall ==
    \A d \in Submitted :
        last.sub[d].call.called =>
            /\ last.sub[d].call.zimra_status = "sent"
            /\ last.sub[d].call.zimra_retry_count = last.sub[d].retry_before + 1
            /\ last.sub[d].call.zimra_sent_date = Now
            /\ last.sub[d].call.row_status = "sent"

\* C18: over any number of sweeps of the retry job, a document whose
\* submissions keep failing is submitted by the job at most 3 times and is
\* then not selected again, whatever makes the submissions fail.
C18_SweepsCapped ==
    \A d \in Created : last.sub[d].swept <= 3

\* The document d was selected by the search of the last sweep.
Selected(d) ==
    /\ last.pre[d].zimra_status = "failed"
    /\ last.pre[d].zimra_retry_count < 3

\* C19: one sweep of the retry job invokes _send_to_zimra exactly once on
\* every document its search selected, whether or not the submissions of the
\* documents before it in the batch failed or raised.
C19_SweepSubmitsEachOnce ==
    last.op = "cron_retry_failed_fiscalization" =>
        \A d \in 1..Len(last.pre) :
            /\ Selected(d) => last.sub[d].n = 1
            /\ last.sub[d].n <= 1

\* A sweep selected two documents; the transport raised for the first, and
\* the second was submitted all the same.
C19_Witness ==
    /\ last.op = "cron_retry_failed_fiscalization"
    /\ Len(last.pre) = 2
    /\ Selected(1)
    /\ Selected(2)
    /\ last.sub[1].o.tr.raises
    /\ moves[1].zimra_status = "failed"
    /\ last.sub[2].n = 1
    /\ last.sub[2].call.called

\* The answer for d is a JSON object: reading its first element raises.
AnsweredObject(d) ==
    /\ Answered(d)
    /\ last.sub[d].o.tr.data.kind = "dict"
    /\ Len(last.sub[d].o.tr.data.items) > 0

\* The try block of the last invocation on d raised.
TryRaised(d) ==
    /\ last.sub[d].config_active
    /\ EligibleBefore(d)
    /\ \/ last.sub[d].o.fault \in {"build", "create"}
       \/ last.sub[d].call.called /\ last.sub[d].o.tr.raises
       \/ AnsweredObject(d)

\* str(e) of the exception it raised.
ExceptionMessage(d) ==
    IF last.sub[d].o.fault = "build" THEN "payload error"
    ELSE IF last.sub[d].o.fault = "create" THEN "create error"
    ELSE IF last.sub[d].o.tr.raises THEN last.sub[d].o.tr.msg
    ELSE "0"

\* C20: when building the payload, creating the audit-log row, the transport
\* call or the reading of the response raises, the submission ends with
\* zimra_status 'failed' and zimra_error the exception's message, and the
\* audit-log row of the invocation, if it was created, is 'failed' with the
\* same message.
C20_ExceptionRecorded ==
    \A d \in Submitted :
        TryRaised(d) =>
            /\ moves[d].zimra_status = "failed"
            /\ moves[d].zimra_error = ExceptionMessage(d)
            /\ last.sub[d].result = FALSE
            /\ \A i \in 1..Len(last.sub[d].row) :
                  /\ last.sub[d].row[i].status = "failed"
                  /\ last.sub[d].row[i].error_message = ExceptionMessage(d)

\* The transport timed out after the row was created: the document and the
\* row are failed with the message of the timeout.
C20_Witness ==
    \E d \in Submitted :
        /\ TryRaised(d)
        /\ last.sub[d].o.tr.raises
        /\ last.sub[d].o.tr.msg = "timeout"
        /\ moves[d].zimra_error = "timeout"
        /\ Len(last.sub[d].row) = 1
        /\ last.sub[d].row[1].status = "failed"
        /\ last.sub[d].row[1].error_message = "timeout"
        /\ zimra_invoice[Len(zimra_invoice)] = [account_move_id |-> d, status |-> "failed"]

\* The last invocation on d got past the configuration and eligibility
\* checks.
PastTheChecks(d) == last.sub[d].config_active /\ EligibleBefore(d)

\* What the last attempt on d produced for zimra_response and zimra_error.
ProducedResponse(d) ==
    IF Answered(d) /\ RespTruthy(last.sub[d].o.tr.data)
    THEN Dumps(last.sub[d].o.tr.data)
    ELSE ""

ProducedError(d) ==
    IF TryRaised(d) THEN ExceptionMessage(d)
    ELSE IF AnsweredList(d) /\ FirstElem(d).Error # None THEN FirstElem(d).Error
    ELSE ""

\* C21: after a submission attempt that got past the configuration and
\* eligibility checks, zimra_error and zimra_response are empty or hold what
\* this attempt produced; neither keeps a value an earlier attempt wrote.
C21_DiagnosticsOfThisAttempt ==
    \A d \in Submitted :
        PastTheChecks(d) =>
            /\ moves[d].zimra_response \in {"", ProducedResponse(d)}
            /\ moves[d].zimra_error \in {"", ProducedError(d)}

\* C22: the IsRetry flag of the payload sent equals zimra_retry_count > 0 as
\* it was before this attempt's increment: false for the first submission and
\* true for every submission after one that reached the transport, for the
\* invoice and the credit-note schema alike.
C22_IsRetryFromCountBefore ==
    \A d \in Submitted :
        last.sub[d].call.called =>
            /\ last.sub[d].call.IsRetry = (last.sub[d].retry_before > 0)
            /\ last.sub[d].retry_before = 0 => last.sub[d].call.IsRetry = FALSE
            /\ last.sub[d].call.zimra_retry_count > 1 => last.sub[d].call.IsRetry = TRUE

\* A credit note whose first submission had reached the transport was sent
\* again, marked as a retry.
C22_Witness ==
    \E d \in Submitted :
        /\ moves[d].move_type = "out_refund"
        /\ last.sub[d].call.called
        /\ last.sub[d].call.endpoint = "/creditnote"
        /\ last.sub[d].retry_before = 1
        /\ last.sub[d].call.IsRetry = TRUE

\* C23: action_retry_fiscalization on a document that is not 'failed' changes
\* no field of it, creates no audit-log row and makes no transport call; on a
\* failed document it sets zimra_status to pending, clears zimra_error and
\* then submits.
C23_RetryOnlyWhenFailed ==
    last.op = "action_retry_fiscalization" =>
        LET d == last.id IN
        IF last.pre[d].zimra_status # "failed"
        THEN /\ moves = last.pre
             /\ last.title = "Cannot Retry"
             /\ last.sub[d].trail = <<>>
             /\ \A e \in Created :
                  /\ last.sub[e].n = 0
                  /\ last.sub[e].calls = 0
                  /\ last.sub[e].rows = 0
        ELSE /\ Len(last.sub[d].trail) = 2
             /\ last.sub[d].trail[1] = "pending"
             /\ last.sub[d].n = 1
             /\ last.sub[d].status_before = "pending"
             /\ moves[d].zimra_status = "exempted" => moves[d].zimra_error = ""

\* A failed document holding an error was retried: it went to pending and
\* its submission reached the transport.
C23_Witness ==
    /\ last.op = "action_retry_fiscalization"
    /\ last.pre[last.id].zimra_status = "failed"
    /\ last.pre[last.id].zimra_error # ""
    /\ last.sub[last.id].trail[1] = "pending"
    /\ last.sub[last.id].n = 1
    /\ last.sub[last.id].call.called

\* C24: through every entry point the transport is invoked for a document
\* only when an active configuration exists and the document is eligible at
\* that moment: never for a document whose zimra_status is fiscalized or
\* exempted, whose state is not posted or whose type is not out_invoice or
\* out_refund; and no document becomes fiscalized without that call.
C24_TransportOnlyWhenEligible ==
    \A d \in Created :
        /\ last.sub[d].call.called =>
             /\ last.sub[d].config_active
             /\ last.sub[d].call.zimra_status \notin {"fiscalized", "exempted"}
             /\ last.sub[d].status_before \notin {"fiscalized", "exempted"}
             /\ moves[d].state = "posted"
             /\ moves[d].move_type \in {"out_invoice", "out_refund"}
        /\ last.sub[d].calls > 0 => last.sub[d].call.called
        /\ (\E i \in 1..Len(last.sub[d].trail) : last.sub[d].trail[i] = "fiscalized") =>
             last.sub[d].call.called

\* action_fiscalize_invoice ran, with an active configuration, on a vendor
\* bill: _send_to_zimra was invoked, made no transport call and the
\* document is not fiscalized.
C24_Witness ==
    \E d \in Submitted :
        /\ last.op = "action_fiscalize_invoice"
        /\ last.sub[d].config_active
        /\ moves[d].move_type = "in_invoice"
        /\ moves[d].state = "posted"
        /\ ~last.sub[d].call.called
        /\ last.sub[d].calls = 0
        /\ moves[d].zimra_status # "fiscalized"

\* C25: one action_post (the write of state = posted, with or without
\* payment_state = paid) submits the document at most once: at most one
\* invocation, one transport call and one audit-log row, and
\* zimra_retry_count grows by at most one, whether the submission succeeds or
\* fails.
C25_PostSubmitsAtMostOnce ==
    last.op = "action_post" =>
        LET d == last.id IN
        /\ last.sub[d].n <= 1
        /\ last.sub[d].calls <= 1
        /\ last.sub[d].rows <= 1
        /\ moves[d].zimra_retry_count <= last.pre[d].zimra_retry_count + 1
        /\ \A e \in Created \ {d} : last.sub[e].n = 0

\* A posting whose submission was rejected: the blocks that follow found the
\* document failed and did not submit it again.
C25_Witness ==
    /\ last.op = "action_post"
    /\ last.sub[last.id].n = 1
    /\ last.sub[last.id].calls = 1
    /\ last.sub[last.id].rows = 1
    /\ last.sub[last.id].result = FALSE
    /\ moves[last.id].zimra_status = "failed"
    /\ moves[last.id].zimra_retry_count = last.pre[last.id].zimra_retry_count + 1

\* C26: action_fiscalize_invoice returns the 'Fiscalization Successful'
\* notification only when the document's zimra_status is 'fiscalized' on
\* return; never for a document left exempted, pending or failed.
C26_SuccessMeansFiscalized ==
    (last.op = "action_fiscalize_invoice" /\ last.title = "Fiscalization Successful") =>
        moves[last.id].zimra_status = "fiscalized"

\* C27: after any sequence of create and write operations on tax mappings, no
\* two zimra.tax.mapping records have the same (config_id, odoo_tax_id): the
\* operation that would produce a duplicate is rejected and the table is left
\* as it was.
C27_TaxMappingsUnique ==
    \A i \in 1..Len(tax_mapping) :
        \A j \in 1..Len(tax_mapping) :
            (/\ tax_mapping[i].config_id = tax_mapping[j].config_id
             /\ tax_mapping[i].odoo_tax_id = tax_mapping[j].odoo_tax_id) => i = j

====
